---- MODULE Spec2Model ----
(***************************************************************************)
(* Model of the mtree-sol on-chain program: a Merkle accumulator kept in   *)
(* a fixed-capacity account buffer (program/src/processor.rs, state.rs,    *)
(* instruction.rs).                                                        *)
(*                                                                         *)
(* Two specifications share this module:                                   *)
(*   SpecTree  the in-memory MTree driven by insert_leaf, as the unit      *)
(*             tests of processor.rs drive it;                             *)
(*   Spec      the dispatcher Processor::process acting on the account's   *)
(*             byte buffer, one action per entrypoint call.                *)
(*                                                                         *)
(* Bytes are integers 0..255, a digest is a sequence of DigestLen bytes,   *)
(* the account data and the instruction data are sequences of bytes.       *)
(***************************************************************************)
EXTENDS Integers, Sequences, FiniteSets, TLC

\* ------------------------------------------------------------------ bounds
MaxLeaves == 8       \* SpecTree: insertions into the in-memory tree
MaxCapLeaves == 3    \* Spec: account capacities up to 36 + 32 * MaxCapLeaves
MaxCalls == 3        \* Spec: entrypoint calls per behaviour
MaxPairLeaves == 2   \* SpecPair: insertions into each of the two trees
MaxLoopLeaves == 4   \* SpecLoop: leaves of the tree whose root is recomputed

\* ------------------------------------------------------- program constants
DigestLen == 32      \* [u8; 32]
PairLen == 64        \* Vec::with_capacity(64): left digest ++ right digest

\* ------------------------------------------------------------ byte helpers
Zeros(n) == [i \in 1..n |-> 0]

Fill(n, b) == [i \in 1..n |-> b]

Drop(s, n) == SubSeq(s, n + 1, Len(s))

Take(s, n) == SubSeq(s, 1, n)

\* borsh u32: four bytes, little-endian
BE32(n) ==
  << (n \div 16777216) % 256, (n \div 65536) % 256, (n \div 256) % 256, n % 256 >>

LE32(n) ==
  << n % 256, (n \div 256) % 256, (n \div 65536) % 256, (n \div 16777216) % 256 >>

ReadLE32(b) == b[1] + 256 * b[2] + 65536 * b[3] + 16777216 * b[4]

\* borsh writes the length of a Vec as a u32
LenPrefix == Len(LE32(0))

\* ------------------------------------------------------------------ keccak
\* keccak::hash is modelled as a collision-free function from byte strings
\* to DigestLen bytes.  A digest carries a prefix-free description of its
\* preimage, zero-padded to DigestLen:
\*   payload <<>>        1
\*   payload <<b>>       2 + b
\*   64 bytes l ++ r     255, description of l, description of r
\* It is injective on the payloads of the model and on the 64-byte
\* concatenations of digests of trees of up to 16 such leaves; the same
\* 64 bytes hash to the same digest whether they are a payload or a pair.
Pad(s) ==
  IF Len(s) >= DigestLen THEN Take(s, DigestLen)
  ELSE s \o Zeros(DigestLen - Len(s))

Strip(d) ==
  LET nz == {i \in 1..Len(d) : d[i] # 0}
  IN  IF nz = {} THEN <<>>
      ELSE Take(d, CHOOSE i \in nz : \A j \in nz : j <= i)

hash(bytes) ==
  Pad(IF Len(bytes) = PairLen
        THEN <<255>> \o Strip(Take(bytes, DigestLen)) \o Strip(Drop(bytes, DigestLen))
      ELSE IF Len(bytes) = 0 THEN <<1>>
      ELSE IF Len(bytes) = 1 THEN <<(2 + bytes[1]) % 255>>
      ELSE <<254>> \o bytes)

\* the digests of a sequence of byte strings
HashAll(ps) == [i \in 1..Len(ps) |-> hash(ps[i])]

\* ------------------------------------------------------------------- MTree
ZeroDigest == Zeros(DigestLen)

\* MTree { root: [0; 32], leaves: Vec::new() }
FreshTree == [root |-> ZeroDigest, leaves |-> <<>>]

\* let data_hash = hash(data).to_bytes();
LeafHashRaw(data) == Pad(data)

LeafHash(data) == hash(data)

\* tree.leaves.push(data_hash);
PushLeafDedup(leaves, h) ==
  IF \E i \in 1..Len(leaves) : leaves[i] = h THEN leaves ELSE Append(leaves, h)

PushLeaf(leaves, h) == Append(leaves, h)

\* combined = left ++ right; parent = hash(&combined)
ParentSwapped(left, right) == hash(right \o left)

Parent(left, right) == hash(left \o right)

\* next_level.push(current_level[i]) for the node without a sibling
PromoteHashed(node) == hash(node)

PromoteSelfPaired(node) == hash(node \o node)

Promote(node) == node

\* for i in (0..current_level.len()).step_by(2) { ... }   (i is 0-based)
RECURSIVE ForPairsDropLone(_, _, _)
ForPairsDropLone(current_level, i, next_level) ==
  IF i + 1 >= Len(current_level) THEN next_level
  ELSE ForPairsDropLone(current_level, i + 2,
         Append(next_level, Parent(current_level[i + 1], current_level[i + 2])))

RECURSIVE ForPairs(_, _, _)
ForPairs(current_level, i, next_level) ==
  IF i >= Len(current_level) THEN next_level
  ELSE ForPairs(current_level, i + 2,
         IF i + 1 < Len(current_level)
           THEN Append(next_level, Parent(current_level[i + 1], current_level[i + 2]))
           ELSE Append(next_level, Promote(current_level[i + 1])))

\* while current_level.len() > 1 { ...; current_level = next_level; }
\* The value is the sequence of values current_level takes, the leaves first.
RECURSIVE WhileLevels(_)
WhileLevels(current_level) ==
  IF Len(current_level) > 1
    THEN <<current_level>> \o WhileLevels(ForPairs(current_level, 0, <<>>))
    ELSE <<current_level>>

\* fn insert_leaf(tree: &mut MTree, data: &[u8])
insert_leaf(tree, data) ==
  LET leaves == PushLeaf(tree.leaves, LeafHash(data))
      trace == WhileLevels(leaves)
      current_level == trace[Len(trace)]
  IN  [root |-> current_level[1], leaves |-> leaves]

\* pub fn depth(tree: &MTree) -> usize
RECURSIVE DepthLoopFloor(_, _)
DepthLoopFloor(nodes, d) ==
  IF nodes > 1 THEN DepthLoopFloor(nodes \div 2, d + 1) ELSE d

RECURSIVE DepthLoopPowerOfTwo(_, _)
DepthLoopPowerOfTwo(nodes, d) ==
  IF nodes > 1 /\ nodes % 2 = 0 THEN DepthLoopPowerOfTwo(nodes \div 2, d + 1) ELSE d

RECURSIVE DepthLoop(_, _)
DepthLoop(nodes, d) ==
  IF nodes > 1 THEN DepthLoop((nodes + 1) \div 2, d + 1) ELSE d

depth(tree) ==
  LET leaf_count == Len(tree.leaves)
  IN  IF leaf_count = 0 THEN 0 ELSE DepthLoop(leaf_count, 0)

\* ------------------------------------------------------------- borsh codec
\* #[derive(BorshSerialize)] for MTree: root, then leaves as u32 count and
\* the elements back to back.
RECURSIVE Concat(_)
Concat(ss) == IF ss = <<>> THEN <<>> ELSE Head(ss) \o Concat(Tail(ss))

SerializeMTree(tree) == tree.root \o LE32(Len(tree.leaves)) \o Concat(tree.leaves)

\* #[derive(BorshDeserialize)] for MTree, reading from the front of buf:
\* [ok, tree, rest], rest being the bytes the reader has not consumed.
DeserializeFail == [ok |-> FALSE, tree |-> FreshTree, rest |-> <<>>]

DeserializeMTree(buf) ==
  IF Len(buf) < DigestLen + LenPrefix THEN DeserializeFail
  ELSE LET n == ReadLE32(SubSeq(buf, DigestLen + 1, DigestLen + LenPrefix))
           body == Drop(buf, DigestLen + LenPrefix)
       IN  IF n > Len(body) \div DigestLen THEN DeserializeFail
           ELSE [ok |-> TRUE,
                 tree |-> [root |-> Take(buf, DigestLen),
                           leaves |-> [i \in 1..n |->
                              SubSeq(body, DigestLen * (i - 1) + 1, DigestLen * i)]],
                 rest |-> Drop(body, DigestLen * n)]

\* BorshDeserialize::try_from_slice: deserialize, then fail unless every
\* byte of the slice was consumed.
AllBytesRead(rest) == rest = <<>>

MTreeTryFromSlice(buf) ==
  LET r == DeserializeMTree(buf)
  IN  IF r.ok /\ AllBytesRead(r.rest) THEN [ok |-> TRUE, tree |-> r.tree]
      ELSE [ok |-> FALSE, tree |-> FreshTree]

\* #[derive(BorshSerialize)] for MTreeInstruction::InsertLeaf { data }:
\* variant index as u8, then data as u32 count and the bytes.
SerializeInstruction(payload) == <<0>> \o LE32(Len(payload)) \o payload

\* #[derive(BorshDeserialize)] for MTreeInstruction, reading from the front
\* of buf: [ok, data, rest].
InstructionFail == [ok |-> FALSE, data |-> <<>>, rest |-> <<>>]

DeserializeInstruction(buf) ==
  IF Len(buf) < 1 THEN InstructionFail
  ELSE IF buf[1] # 0 THEN InstructionFail
  ELSE IF Len(buf) < 1 + LenPrefix THEN InstructionFail
  ELSE LET n == ReadLE32(SubSeq(buf, 2, 1 + LenPrefix))
           body == Drop(buf, 1 + LenPrefix)
       IN  IF n > Len(body) THEN InstructionFail
           ELSE [ok |-> TRUE, data |-> Take(body, n), rest |-> Drop(body, n)]

\* MTreeInstruction::try_from_slice(instruction_data)
InstructionTryFromSliceLax(buf) ==
  LET r == DeserializeInstruction(buf)
  IN  [ok |-> r.ok, data |-> r.data]

InstructionTryFromSlice(buf) ==
  LET r == DeserializeInstruction(buf)
  IN  IF r.ok /\ AllBytesRead(r.rest) THEN [ok |-> TRUE, data |-> r.data]
      ELSE [ok |-> FALSE, data |-> <<>>]

\* -------------------------------------------------------------- dispatcher
\* Stands for "this step of the call was not reached".
NoTree == [root |-> <<>>, leaves |-> <<>>]

\* if serialized_data.len() > signer.data_len()
TooSmallFixedSize(serialized_len, data_len) == serialized_len > 10000

TooSmallGeq(serialized_len, data_len) == serialized_len >= data_len

TooSmall(serialized_len, data_len) == serialized_len > data_len

\* data[..serialized_data.len()].copy_from_slice(&serialized_data);
CopyFromSliceClearTail(buf, serialized_data) ==
  serialized_data \o Zeros(Len(buf) - Len(serialized_data))

CopyFromSlice(buf, serialized_data) ==
  serialized_data \o Drop(buf, Len(serialized_data))

\* if let Ok(tree) = MTree::try_from_slice(..) { tree } else { MTree { root:
\* [0; 32], leaves: Vec::new() } }
LoadTreeKeepRoot(buf) ==
  LET decoded == MTreeTryFromSlice(buf)
  IN  IF decoded.ok THEN decoded.tree
      ELSE [root |-> Pad(Take(buf, DigestLen)), leaves |-> <<>>]

LoadTree(buf) ==
  LET decoded == MTreeTryFromSlice(buf)
  IN  IF decoded.ok THEN decoded.tree ELSE FreshTree

\* Processor::process_insert_leaf.  has_account: accounts holds at least one
\* AccountInfo; buf: the data of the first one.  The value is what the call
\* returns, the account data it leaves behind, the tree it loaded and the
\* tree it computed.
process_insert_leaf(has_account, buf, payload) ==
  IF ~has_account
    THEN [result |-> "NotEnoughAccountKeys", data |-> buf,
          loaded |-> NoTree, computed |-> NoTree]
  ELSE
    LET tree0 == LoadTree(buf)
        tree1 == insert_leaf(tree0, payload)
        serialized_data == SerializeMTree(tree1)
    IN  IF TooSmall(Len(serialized_data), Len(buf))
          THEN [result |-> "AccountDataTooSmall", data |-> buf,
                loaded |-> tree0, computed |-> tree1]
        ELSE IF Len(serialized_data) > Len(buf)
          \* the slice data[..n] is out of range: the program panics and the
          \* host discards the call
          THEN [result |-> "Panic", data |-> buf,
                loaded |-> tree0, computed |-> tree1]
        ELSE [result |-> "Ok", data |-> CopyFromSlice(buf, serialized_data),
              loaded |-> tree0, computed |-> tree1]

\* Processor::process, called by entrypoint::process_instruction, which
\* hands its result on unchanged.
process(has_account, buf, instruction_data) ==
  LET instruction == InstructionTryFromSlice(instruction_data)
  IN  IF ~instruction.ok
        THEN [result |-> "BorshIoError", data |-> buf,
              loaded |-> NoTree, computed |-> NoTree]
      ELSE process_insert_leaf(has_account, buf, instruction.data)

\* -------------------------------------------------------------------- logs
\* A log line is a sequence of characters.  The transaction's log_messages
\* hold the host's invoke line, then every msg! of the program behind the
\* host's "Program log: " prefix.
HexChars == << "0", "1", "2", "3", "4", "5", "6", "7", "8", "9", "a", "b", "c", "d", "e", "f" >>

\* hex::encode(bytes): two lower-case digits per byte, high nibble first
RECURSIVE HexEncode(_)
HexEncode(bytes) ==
  IF bytes = <<>> THEN <<>>
  ELSE << HexChars[(Head(bytes) \div 16) + 1], HexChars[(Head(bytes) % 16) + 1] >>
         \o HexEncode(Tail(bytes))

\* "{}" of a usize
RECURSIVE Decimal(_)
Decimal(n) ==
  IF n < 10 THEN << HexChars[n + 1] >>
  ELSE Decimal(n \div 10) \o << HexChars[(n % 10) + 1] >>

\* stands for the text of a public key
KeyText == << "K", "e", "y" >>

InvokeLine == << "P", "r", "o", "g", "r", "a", "m", " " >> \o KeyText \o << " ", "i", "n", "v", "o", "k", "e", " ", "[", "1", "]" >>

ProgramLog(text) == << "P", "r", "o", "g", "r", "a", "m", " ", "l", "o", "g", ":", " " >> \o text

\* msg!("Signer: {}", signer.key);
MsgSigner == ProgramLog(<< "S", "i", "g", "n", "e", "r", ":", " " >> \o KeyText)

\* msg!("MTree decoded");
MsgDecoded == ProgramLog(<< "M", "T", "r", "e", "e", " ", "d", "e", "c", "o", "d", "e", "d" >>)

\* msg!("Root hash updated: {}", hex::encode(tree.root));
MsgRoot(root) == ProgramLog(<< "R", "o", "o", "t", " ", "h", "a", "s", "h", " ", "u", "p", "d", "a", "t", "e", "d", ":", " " >> \o HexEncode(root))

\* msg!("Depth: {}", depth(&tree));
MsgDepth(t) == ProgramLog(<< "D", "e", "p", "t", "h", ":", " " >> \o Decimal(depth(t)))

\* msg!("Space needed: {}, on account: {}", ..);
MsgSpace(needed, have) ==
  ProgramLog(<< "S", "p", "a", "c", "e", " ", "n", "e", "e", "d", "e", "d", ":", " " >> \o Decimal(needed)
             \o << ",", " ", "o", "n", " ", "a", "c", "c", "o", "u", "n", "t", ":", " " >> \o Decimal(have))

\* msg!("MTree updated");
MsgUpdated == ProgramLog(<< "M", "T", "r", "e", "e", " ", "u", "p", "d", "a", "t", "e", "d" >>)

\* error.print::<MTreeError>() in the entrypoint
MsgError(name) == ProgramLog(<< "E", "r", "r", "o", "r", ":", " " >> \o name)

ErrorName(r) ==
  IF r = "BorshIoError" THEN << "B", "o", "r", "s", "h", "I", "o", "E", "r", "r", "o", "r" >>
  ELSE IF r = "NotEnoughAccountKeys" THEN << "N", "o", "t", "E", "n", "o", "u", "g", "h", "A", "c", "c", "o", "u", "n", "t", "K", "e", "y", "s" >>
  ELSE << "A", "c", "c", "o", "u", "n", "t", "D", "a", "t", "a", "T", "o", "o", "S", "m", "a", "l", "l" >>

\* The log_messages of a call, from what it returned and the trees it
\* loaded and computed.
LogMessages(r, cap) ==
  <<InvokeLine>>
  \o (IF r.loaded = NoTree THEN <<>>
      ELSE << MsgSigner, MsgDecoded, MsgRoot(r.computed.root), MsgDepth(r.computed) >>)
  \o (IF r.result = "Ok" THEN <<MsgUpdated>>
      ELSE IF r.result = "AccountDataTooSmall"
        THEN << MsgSpace(Len(SerializeMTree(r.computed)), cap), MsgError(ErrorName(r.result)) >>
      ELSE IF r.result = "Panic" THEN <<>>
      ELSE << MsgError(ErrorName(r.result)) >>)

\* ------------------------------------------------------------------ client
LogIndex == 3        \* logs.get(3)
RootTail == 62       \* &msg_with_root[(msg_with_root.len() - 62)..]

\* let root = &msg_with_root[(msg_with_root.len() - 62)..];
ExtractRoot(msg_with_root) == Drop(msg_with_root, Len(msg_with_root) - RootTail)

\* ------------------------------------------------------------------ inputs
\* Payloads a caller passes to InsertLeaf; the empty payload is one of them.
Payloads == { <<>>, <<1>>, <<2>> }

\* A payload may be any byte string, the 64 bytes of two digests included.
PairPayload == hash(<<>>) \o hash(<<1>>)

PairPayloads == { <<>>, <<1>>, PairPayload }

\* Instruction data a caller can send: every well-formed InsertLeaf, and
\* malformed byte strings: empty, unknown variant tag, truncated length
\* prefix, payload shorter than announced, bytes after the payload.
MalformedInstructions ==
  { <<>>, <<1, 0, 0, 0, 0>>, <<0, 1, 0>>, <<0, 2, 0, 0, 0, 1>>,
    <<0, 1, 0, 0, 0, 1, 2>>, <<0, 0, 0, 0, 0, 9>> }

Instructions == { SerializeInstruction(p) : p \in Payloads } \cup MalformedInstructions

\* Capacities of the account: around the encoded sizes of 0..MaxCapLeaves
\* leaves (one byte short, exact, one byte over).
Capacities ==
  { DigestLen + LenPrefix + DigestLen * k + d : k \in 0..MaxCapLeaves, d \in {-1, 0, 1} }

\* The account is allocated zeroed by the host; a buffer handed in with
\* other bytes (corrupt storage) is filled with sevens.
FillBytes == {0, 7}

\* ------------------------------------------------------------------- state
VARIABLES
  tree,         \* SpecTree: the in-memory MTree
  prevTree,     \* SpecTree: tree before the last insert_leaf
  payloads,     \* SpecTree: payloads inserted so far, in order
  levels,       \* SpecTree: values of current_level during the last insert_leaf
  encoded,      \* SpecTree: borsh::to_vec(&tree)
  reloaded,     \* SpecTree: MTree::try_from_slice(&encoded)
  treeDepth,    \* SpecTree: depth(&tree)
  treeA,        \* SpecPair: one MTree
  seqA,         \* SpecPair: payloads inserted into treeA, in order
  treeB,        \* SpecPair: another MTree
  seqB,         \* SpecPair: payloads inserted into treeB, in order
  pc,           \* SpecLoop: where the run is
  loopLeaves,   \* SpecLoop: tree.leaves after the push
  current_level, \* SpecLoop: insert_leaf's current_level
  next_level,   \* SpecLoop: insert_leaf's next_level
  idx,          \* SpecLoop: the for loop's i
  loopRoot,     \* SpecLoop: tree.root
  nodes,        \* SpecLoop: depth's nodes
  depthCount,   \* SpecLoop: depth's depth
  data,         \* Spec: the account's data
  prevData,     \* Spec: the account's data before the last call
  fill,         \* Spec: byte the account was filled with at creation
  calls,        \* Spec: number of calls made
  lastInstr,    \* Spec: instruction data of the last call
  hadAccount,   \* Spec: whether the last call was given the account
  result,       \* Spec: what the last call returned
  loaded,       \* Spec: tree the last call loaded (NoTree: did not get there)
  computed,     \* Spec: tree the last call computed (NoTree: did not get there)
  okPayloads,   \* Spec: payloads of the calls that returned Ok, in order
  logs,         \* Spec: log_messages of the last call
  printed       \* Spec: root the client printed for the last call (<<>>: none)

treeVars == << tree, prevTree, payloads, levels, encoded, reloaded, treeDepth >>

callVars ==
  << data, prevData, fill, calls, lastInstr, hadAccount, result, loaded,
     computed, okPayloads, logs, printed >>

pairVars == << treeA, seqA, treeB, seqB >>

loopVars ==
  << pc, loopLeaves, current_level, next_level, idx, loopRoot, nodes, depthCount >>

vars == << treeVars, callVars, pairVars, loopVars >>

TreeStart ==
  /\ tree = FreshTree
  /\ prevTree = FreshTree
  /\ payloads = <<>>
  /\ levels = <<>>
  /\ encoded = SerializeMTree(FreshTree)
  /\ reloaded = MTreeTryFromSlice(SerializeMTree(FreshTree))
  /\ treeDepth = depth(FreshTree)

PairStart ==
  /\ treeA = FreshTree
  /\ seqA = <<>>
  /\ treeB = FreshTree
  /\ seqB = <<>>

LoopStart(leaves, at) ==
  /\ pc = at
  /\ loopLeaves = leaves
  /\ current_level = leaves
  /\ next_level = <<>>
  /\ idx = 0
  /\ loopRoot = ZeroDigest
  /\ nodes = 0
  /\ depthCount = 0

CallStart(buf, b) ==
  /\ data = buf
  /\ prevData = buf
  /\ fill = b
  /\ calls = 0
  /\ lastInstr = <<>>
  /\ hadAccount = FALSE
  /\ result = "none"
  /\ loaded = NoTree
  /\ computed = NoTree
  /\ okPayloads = <<>>
  /\ logs = <<>>
  /\ printed = <<>>

\* --------------------------------------------------------------- SpecTree
InitTree ==
  /\ TreeStart
  /\ PairStart
  /\ LoopStart(<<>>, "idle")
  /\ CallStart(<<>>, 0)

\* insert_leaf(&mut tree, payload), then the tree's depth and its encoding,
\* written and read back
InsertLeaf ==
  /\ Len(tree.leaves) < MaxLeaves
  /\ \E p \in Payloads :
       /\ tree' = insert_leaf(tree, p)
       /\ prevTree' = tree
       /\ payloads' = Append(payloads, p)
       /\ levels' = WhileLevels(PushLeaf(tree.leaves, LeafHash(p)))
       /\ encoded' = SerializeMTree(tree')
       /\ reloaded' = MTreeTryFromSlice(encoded')
       /\ treeDepth' = depth(tree')
  /\ UNCHANGED << callVars, pairVars, loopVars >>

NextTree == InsertLeaf

SpecTree == InitTree /\ [][NextTree]_vars

\* --------------------------------------------------------------- SpecPair
\* Two trees, each built from the fresh tree by its own insert_leaf calls.
InitPair ==
  /\ TreeStart
  /\ PairStart
  /\ LoopStart(<<>>, "idle")
  /\ CallStart(<<>>, 0)

\* insert_leaf(&mut treeA, payload)
InsertLeafA ==
  /\ Len(seqA) < MaxPairLeaves
  /\ \E p \in PairPayloads :
       /\ treeA' = insert_leaf(treeA, p)
       /\ seqA' = Append(seqA, p)
  /\ UNCHANGED << treeB, seqB, treeVars, callVars, loopVars >>

\* insert_leaf(&mut treeB, payload)
InsertLeafB ==
  /\ Len(seqB) < MaxPairLeaves
  /\ \E p \in PairPayloads :
       /\ treeB' = insert_leaf(treeB, p)
       /\ seqB' = Append(seqB, p)
  /\ UNCHANGED << treeA, seqA, treeVars, callVars, loopVars >>

NextPair == InsertLeafA \/ InsertLeafB

SpecPair == InitPair /\ [][NextPair]_vars

\* --------------------------------------------------------------- SpecLoop
\* The loops of insert_leaf and of depth, one step per test or iteration.  A
\* run recomputes the root of a tree of 1..MaxLoopLeaves leaves and then
\* takes its depth, or takes the depth of the empty tree.
LoopLeafSets ==
  UNION { { HashAll(s) : s \in [1..n -> {<<>>, <<1>>}] } : n \in 1..MaxLoopLeaves }

InitLoop ==
  /\ TreeStart
  /\ PairStart
  /\ CallStart(<<>>, 0)
  /\ \/ \E leaves \in LoopLeafSets : LoopStart(leaves, "while")
     \/ LoopStart(<<>>, "depth")

\* while current_level.len() > 1
LoopContinuesAtOne(level) == Len(level) >= 1

LoopContinues(level) == Len(level) > 1

\* nodes.div_ceil(2)
DivCeil(n) == (n + 1) \div 2

\* while test true: let mut next_level = Vec::new(); the for loop starts
WhileEnter ==
  /\ pc = "while"
  /\ LoopContinues(current_level)
  /\ next_level' = <<>>
  /\ idx' = 0
  /\ pc' = "for"
  /\ UNCHANGED << loopLeaves, current_level, loopRoot, nodes, depthCount >>

\* while test false: the loop is left
WhileExit ==
  /\ pc = "while"
  /\ ~LoopContinues(current_level)
  /\ pc' = "root"
  /\ UNCHANGED << loopLeaves, current_level, next_level, idx, loopRoot, nodes, depthCount >>

\* one iteration of the for loop, i + 1 < current_level.len()
ForPair ==
  /\ pc = "for"
  /\ idx < Len(current_level)
  /\ idx + 1 < Len(current_level)
  /\ next_level' = Append(next_level, Parent(current_level[idx + 1], current_level[idx + 2]))
  /\ idx' = idx + 2
  /\ UNCHANGED << pc, loopLeaves, current_level, loopRoot, nodes, depthCount >>

\* one iteration of the for loop, no sibling
ForLone ==
  /\ pc = "for"
  /\ idx < Len(current_level)
  /\ ~(idx + 1 < Len(current_level))
  /\ next_level' = Append(next_level, Promote(current_level[idx + 1]))
  /\ idx' = idx + 2
  /\ UNCHANGED << pc, loopLeaves, current_level, loopRoot, nodes, depthCount >>

\* the range is exhausted: current_level = next_level;
ForEnd ==
  /\ pc = "for"
  /\ idx >= Len(current_level)
  /\ current_level' = next_level
  /\ pc' = "while"
  /\ UNCHANGED << loopLeaves, next_level, idx, loopRoot, nodes, depthCount >>

\* tree.root = current_level[0]; an index out of range panics
SetRoot ==
  /\ pc = "root"
  /\ IF Len(current_level) >= 1
       THEN loopRoot' = current_level[1] /\ pc' = "depth"
       ELSE loopRoot' = loopRoot /\ pc' = "panic"
  /\ UNCHANGED << loopLeaves, current_level, next_level, idx, nodes, depthCount >>

\* depth: if leaf_count == 0 { return 0; }
DepthEmpty ==
  /\ pc = "depth"
  /\ Len(loopLeaves) = 0
  /\ depthCount' = 0
  /\ pc' = "done"
  /\ UNCHANGED << loopLeaves, current_level, next_level, idx, loopRoot, nodes >>

\* depth: let mut depth = 0; let mut nodes = leaf_count;
DepthEnter ==
  /\ pc = "depth"
  /\ Len(loopLeaves) # 0
  /\ depthCount' = 0
  /\ nodes' = Len(loopLeaves)
  /\ pc' = "depthloop"
  /\ UNCHANGED << loopLeaves, current_level, next_level, idx, loopRoot >>

\* depth: one iteration of while nodes > 1
DepthStep ==
  /\ pc = "depthloop"
  /\ nodes > 1
  /\ nodes' = DivCeil(nodes)
  /\ depthCount' = depthCount + 1
  /\ UNCHANGED << pc, loopLeaves, current_level, next_level, idx, loopRoot >>

\* depth: the loop is left and depth returned
DepthExit ==
  /\ pc = "depthloop"
  /\ ~(nodes > 1)
  /\ pc' = "done"
  /\ UNCHANGED << loopLeaves, current_level, next_level, idx, loopRoot, nodes, depthCount >>

NextLoop ==
  /\ \/ WhileEnter \/ WhileExit \/ ForPair \/ ForLone \/ ForEnd \/ SetRoot
     \/ DepthEmpty \/ DepthEnter \/ DepthStep \/ DepthExit
  /\ UNCHANGED << treeVars, callVars, pairVars >>

\* One call runs to completion: a step that can be taken is taken.
SpecLoop == InitLoop /\ [][NextLoop]_vars /\ WF_vars(NextLoop)

\* ------------------------------------------------------------------- Spec
Init ==
  /\ TreeStart
  /\ PairStart
  /\ LoopStart(<<>>, "idle")
  /\ \E cap \in Capacities, b \in FillBytes : CallStart(Fill(cap, b), b)

\* entrypoint::process_instruction(program_id, accounts, instruction_data)
ProcessInstruction ==
  /\ calls < MaxCalls
  /\ \E instruction_data \in Instructions, has_account \in BOOLEAN :
       LET r == process(has_account, data, instruction_data)
       IN  /\ data' = r.data
           /\ prevData' = data
           /\ calls' = calls + 1
           /\ lastInstr' = instruction_data
           /\ hadAccount' = has_account
           /\ result' = r.result
           /\ loaded' = r.loaded
           /\ computed' = r.computed
           /\ okPayloads' =
                IF r.result = "Ok"
                  THEN Append(okPayloads, InstructionTryFromSlice(instruction_data).data)
                  ELSE okPayloads
           /\ logs' = LogMessages(r, Len(data))
           /\ printed' = <<>>
  /\ UNCHANGED << fill, treeVars, pairVars, loopVars >>

\* client main, after send_and_confirm_transaction returned Ok: read the
\* transaction's log messages and print the root
ClientPrintRoot ==
  /\ result = "Ok"
  /\ printed = <<>>
  /\ Len(logs) > LogIndex
  /\ printed' = ExtractRoot(logs[LogIndex + 1])
  /\ UNCHANGED << data, prevData, fill, calls, lastInstr, hadAccount, result,
                  loaded, computed, okPayloads, logs, treeVars, pairVars,
                  loopVars >>

Next == ProcessInstruction \/ ClientPrintRoot

Spec == Init /\ [][Next]_vars

\* ------------------------------------------------- the spec's Root Builder
\* One level up: node j of the next level is the hash of nodes 2j-1 and 2j,
\* or node 2j-1 itself when it is the last and has no sibling.
RootBuilderLevel(s) ==
  [j \in 1..((Len(s) + 1) \div 2) |->
     IF 2 * j <= Len(s) THEN hash(s[2 * j - 1] \o s[2 * j]) ELSE s[2 * j - 1]]

\* Root of a non-empty sequence of digests.
RECURSIVE RootBuilder(_)
RootBuilder(s) == IF Len(s) = 1 THEN s[1] ELSE RootBuilder(RootBuilderLevel(s))

Last(s) == s[Len(s)]

\* ------------------------------------------------------ claims on SpecTree

\* C3: after one or more insert_leaf operations on the fresh tree, root is
\* the Root Builder result over the whole current leaf sequence.
C3_RootNeverStale ==
  payloads # <<>> => tree.root = RootBuilder(tree.leaves)

C3_Witness ==
  /\ Len(payloads) = 5
  /\ tree.leaves = HashAll(payloads)
  /\ tree.root = RootBuilder(tree.leaves)
  /\ tree.root # prevTree.root

\* C4: after p1, p2, p3 the root is hash(hash(hash(p1) ++ hash(p2)) ++
\* hash(p3)); and at every level of the recomputation with an odd number
\* (more than one) of nodes, the last node of the next level is the last
\* node of that level, unchanged.
C4_OddPromotion ==
  /\ Len(payloads) = 3 =>
       tree.root = hash(hash(hash(payloads[1]) \o hash(payloads[2])) \o hash(payloads[3]))
  /\ \A k \in 1..(Len(levels) - 1) :
       Len(levels[k]) % 2 = 1 => Last(levels[k + 1]) = Last(levels[k])
  /\ payloads # <<>> => Last(levels) = <<tree.root>>

C4_Witness ==
  /\ Len(payloads) = 3
  /\ Len(levels) = 3
  /\ Len(levels[1]) = 3
  /\ Last(levels[2]) = hash(payloads[3])
  /\ tree.root = hash(hash(hash(payloads[1]) \o hash(payloads[2])) \o hash(payloads[3]))

\* C5: after p1 then p2 there are two leaves, the root is
\* hash(hash(p1) ++ hash(p2)), the earlier leaf on the left, and it differs
\* from the root after the first insert.
C5_TwoLeaves ==
  Len(payloads) = 2 =>
    /\ Len(tree.leaves) = 2
    /\ tree.root = hash(hash(payloads[1]) \o hash(payloads[2]))
    /\ prevTree.root = hash(payloads[1])
    /\ tree.root # prevTree.root

C5_Witness ==
  /\ Len(payloads) = 2
  /\ payloads[1] # payloads[2]
  /\ tree.root = hash(hash(payloads[1]) \o hash(payloads[2]))
  /\ tree.root # hash(hash(payloads[2]) \o hash(payloads[1]))

\* C6: inserting any payload p, the empty one included, into the empty
\* state gives leaves = [hash(p)] and root = hash(p).
C6_SingleLeaf ==
  Len(payloads) = 1 =>
    /\ prevTree = FreshTree
    /\ tree.leaves = <<hash(payloads[1])>>
    /\ tree.root = hash(payloads[1])

C6_Witness ==
  /\ payloads = << <<>> >>
  /\ tree.leaves = <<hash(<<>>)>>
  /\ tree.root = hash(<<>>)

\* C7: every insert_leaf step leaves the earlier leaves in place and adds
\* exactly one element, hash(p), at the end, also when that digest is
\* already among the leaves.
C7_AppendOnly ==
  [][payloads' # payloads =>
       tree'.leaves = Append(tree.leaves, hash(Last(payloads')))]_vars

C7_Witness ==
  \E i, j \in 1..Len(payloads) :
    /\ i < j
    /\ payloads[i] = payloads[j]
    /\ Len(tree.leaves) = Len(payloads)
    /\ tree.leaves[i] = tree.leaves[j]
    /\ tree.leaves = Append(prevTree.leaves, hash(Last(payloads)))

\* ---------------------------------------------------------- claims on Spec
ErrorResults == {"BorshIoError", "NotEnoughAccountKeys", "AccountDataTooSmall"}

\* C1: on an account that starts all zero, the state computed by the n-th
\* successful InsertLeaf call has the leaves hash(p1), ..., hash(pn) of all
\* n successful calls, in order, and their Root Builder root.
C1_LeavesAccumulate ==
  (fill = 0 /\ result = "Ok") =>
    /\ computed.leaves = HashAll(okPayloads)
    /\ computed.root = RootBuilder(computed.leaves)

\* C2: when the account data before the call starts with encode(s) for a
\* state s, whatever the bytes after it, the call loads s.
C2_DecoderIgnoresTrailingBytes ==
  LET r == DeserializeMTree(prevData)
      enc == SerializeMTree(r.tree)
  IN  (loaded # NoTree /\ r.ok /\ Take(prevData, Len(enc)) = enc) => loaded = r.tree

\* C8: if the encoding of the state after insertion is longer than the
\* account data, the call returns AccountDataTooSmall and the data is what
\* it was before the call.
C8_CapacityGuard ==
  (computed # NoTree /\ Len(SerializeMTree(computed)) > Len(prevData)) =>
    /\ result = "AccountDataTooSmall"
    /\ data = prevData

C8_Witness ==
  /\ result = "AccountDataTooSmall"
  /\ loaded # FreshTree
  /\ Len(computed.leaves) = 2
  /\ Len(SerializeMTree(computed)) > Len(prevData)
  /\ data = prevData
  /\ data # Zeros(Len(data))

\* C9: every call ends either with an error and the data as before the
\* call, or with Ok, the leading bytes of the data being the encoding of the
\* computed state and every byte after them as before the call.
C9_AtomicCommit ==
  calls > 0 =>
    \/ result \in ErrorResults /\ data = prevData
    \/ /\ result = "Ok"
       /\ computed # NoTree
       /\ Len(data) = Len(prevData)
       /\ LET enc == SerializeMTree(computed)
          IN  /\ Len(enc) <= Len(data)
              /\ Take(data, Len(enc)) = enc
              /\ Drop(data, Len(enc)) = Drop(prevData, Len(enc))

C9_Witness ==
  /\ result = "Ok"
  /\ fill # 0
  /\ data # prevData
  /\ Len(data) > Len(SerializeMTree(computed))
  /\ Last(data) = fill
  /\ Take(data, Len(SerializeMTree(computed))) = SerializeMTree(computed)

\* C10: instruction data that is not the encoding of InsertLeaf{payload} for
\* any payload makes the call return the decoding error before it looks at
\* the account, the data unchanged.
WellFormedInstruction(b) ==
  /\ Len(b) >= 1 + LenPrefix
  /\ b = SerializeInstruction(Drop(b, 1 + LenPrefix))

C10_MalformedInstruction ==
  (calls > 0 /\ ~WellFormedInstruction(lastInstr)) =>
    /\ result = "BorshIoError"
    /\ data = prevData
    /\ loaded = NoTree
    /\ computed = NoTree

C10_Witness ==
  /\ calls > 0
  /\ lastInstr = <<0, 0, 0, 0, 0, 9>>
  /\ hadAccount
  /\ result = "BorshIoError"
  /\ data = prevData

\* C11 as claimed: whenever the account data does not decode as a state, the
\* call goes on with the fresh state and commits the one-leaf state of its
\* payload.
C11_FallbackCommits ==
  (loaded # NoTree /\ ~DeserializeMTree(prevData).ok) =>
    /\ loaded = FreshTree
    /\ result = "Ok"
    /\ Take(data, Len(SerializeMTree(computed))) = SerializeMTree(computed)

\* C11 amended: whenever the account data does not decode as a state, the
\* call goes on with the fresh state and computes the one-leaf state of its
\* payload; it commits it when the account holds at least the 68 bytes of
\* that state, and otherwise returns AccountDataTooSmall, the data unchanged.
C11_FallbackToFresh ==
  (loaded # NoTree /\ ~DeserializeMTree(prevData).ok) =>
    LET p == Drop(lastInstr, 1 + LenPrefix)
        one == [root |-> hash(p), leaves |-> <<hash(p)>>]
    IN  /\ loaded = FreshTree
        /\ computed = one
        /\ IF Len(prevData) >= 68
             THEN /\ result = "Ok"
                  /\ Take(data, 68) = SerializeMTree(one)
                  /\ Drop(data, 68) = Drop(prevData, 68)
             ELSE /\ result = "AccountDataTooSmall"
                  /\ data = prevData

C11_Witness ==
  /\ loaded = FreshTree
  /\ ~DeserializeMTree(prevData).ok
  /\ Len(prevData) > 68
  /\ fill # 0
  /\ prevData = Fill(Len(prevData), fill)
  /\ result = "Ok"
  /\ Len(computed.leaves) = 1
  /\ Take(data, 68) = SerializeMTree(computed)

\* C17: a state of k leaves encodes to 36 + 32 * k bytes; a call that loaded
\* k leaves returns AccountDataTooSmall exactly when 36 + 32 * (k + 1) is more
\* than the capacity and commits otherwise; a committed state has at most
\* (capacity - 36) \div 32 leaves.
C17_CapacityThreshold ==
  loaded # NoTree =>
    LET k == Len(loaded.leaves)
        cap == Len(prevData)
    IN  /\ Len(SerializeMTree(loaded)) = 36 + 32 * k
        /\ Len(SerializeMTree(computed)) = 36 + 32 * (k + 1)
        /\ Len(data) = cap
        /\ (result = "AccountDataTooSmall") <=> (36 + 32 * (k + 1) > cap)
        /\ (result = "Ok") <=> (36 + 32 * (k + 1) <= cap)
        /\ result = "Ok" =>
             /\ Len(computed.leaves) <= (cap - 36) \div 32
             /\ DeserializeMTree(data).tree = computed

C17_Witness ==
  /\ result = "Ok"
  /\ Len(prevData) = 68
  /\ Len(loaded.leaves) = 0
  /\ Len(computed.leaves) = 1
  /\ data = SerializeMTree(computed)

\* C16: the root the client prints after a confirmed InsertLeaf is the whole
\* 64-character hex encoding of the root the program logged, the last 64
\* characters of the "Root hash updated" line.
C16_ClientPrintsRoot ==
  printed # <<>> =>
    /\ Len(printed) = 64
    /\ printed = HexEncode(computed.root)
    /\ printed = Drop(MsgRoot(computed.root), Len(MsgRoot(computed.root)) - 64)

\* ------------------------------------------------ more claims on SpecTree

\* C12: decoding the encoding of a state gives the state back; the encoding
\* is the 32 root bytes, the leaf count as four little-endian bytes, then the
\* leaves, 32 bytes each.
C12_CodecRoundTrip ==
  LET n == Len(tree.leaves)
  IN  /\ reloaded = [ok |-> TRUE, tree |-> tree]
      /\ Len(encoded) = 36 + 32 * n
      /\ SubSeq(encoded, 1, 32) = tree.root
      /\ SubSeq(encoded, 33, 36) = << n % 256, (n \div 256) % 256, 0, 0 >>
      /\ \A i \in 1..n : SubSeq(encoded, 36 + 32 * (i - 1) + 1, 36 + 32 * i) = tree.leaves[i]

C12_Witness ==
  /\ Len(tree.leaves) = 3
  /\ tree.leaves[1] # tree.leaves[3]
  /\ reloaded.ok
  /\ reloaded.tree = tree
  /\ encoded[33] = 3

\* C13: depth is a function of the leaf count alone: 0 for no leaf and for
\* one, otherwise the least d with 2^d >= n; 0,0,1,2,2,3,3 for
\* n = 0,1,2,3,4,5,8.
CeilLog2(n) == CHOOSE d \in 0..n : 2^d >= n /\ \A e \in 0..(d - 1) : 2^e < n

DepthTable == [n \in {0, 1, 2, 3, 4, 5, 8} |->
                 CASE n = 0 -> 0 [] n = 1 -> 0 [] n = 2 -> 1 [] n = 3 -> 2
                   [] n = 4 -> 2 [] n = 5 -> 3 [] n = 8 -> 3]

C13_DepthTable ==
  LET n == Len(tree.leaves)
  IN  /\ n = 0 => treeDepth = 0
      /\ n >= 1 => treeDepth = CeilLog2(n)
      /\ n \in DOMAIN DepthTable => treeDepth = DepthTable[n]

C13_Witness ==
  /\ Len(tree.leaves) = 8
  /\ treeDepth = 3
  /\ \E i \in 1..8 : payloads[i] # payloads[1]

\* C14: from one insertion to the next the depth never decreases and grows
\* by at most one.
C14_DepthMonotone ==
  [][payloads' # payloads =>
       (treeDepth' >= treeDepth /\ treeDepth' <= treeDepth + 1)]_vars

C14_Witness ==
  /\ Len(tree.leaves) = 5
  /\ treeDepth = 3
  /\ depth(prevTree) = 2

\* C18: for a tree of n >= 1 leaves, depth is the number of passes of the
\* outer loop of insert_leaf that reduce the n leaves to the root.
C18_DepthIsPassCount ==
  payloads # <<>> =>
    /\ Len(levels[1]) = Len(tree.leaves)
    /\ treeDepth = Len(levels) - 1

C18_Witness ==
  /\ Len(tree.leaves) = 5
  /\ Len(levels) = 4
  /\ Len(levels[2]) = 3
  /\ treeDepth = 3

\* ------------------------------------------------------- claims on SpecPair

\* C15: two different non-empty payload sequences inserted into empty states
\* never give the same root, a payload that is the 64 bytes of two digests
\* included.
C15_RootAuthenticates ==
  (seqA # <<>> /\ seqB # <<>> /\ seqA # seqB) => treeA.root # treeB.root

\* ------------------------------------------------------- claims on SpecLoop

\* C19: for every leaf count n >= 1 the root recomputation ends: each pass
\* replaces a level of m > 1 nodes by one of exactly ceil(m / 2) < m nodes,
\* the loop is left with exactly one node, so that the read of level[0] is
\* defined; and the depth loop ends for every n.
C19_Termination ==
  /\ <>(pc = "done")
  /\ [](pc # "panic")
  /\ [](pc = "root" => Len(current_level) = 1)
  /\ [][(pc = "for" /\ pc' = "while") =>
          /\ Len(current_level) > 1
          /\ 2 * Len(current_level') \in {Len(current_level), Len(current_level) + 1}
          /\ Len(current_level') < Len(current_level)]_vars
  /\ [](pc = "done" =>
          /\ loopLeaves # <<>> => loopRoot = RootBuilder(loopLeaves)
          /\ depthCount = depth([root |-> loopRoot, leaves |-> loopLeaves]))

C19_Witness ==
  /\ pc = "done"
  /\ Len(loopLeaves) = 3
  /\ Len(current_level) = 1
  /\ loopRoot = current_level[1]
  /\ loopRoot = hash(hash(loopLeaves[1] \o loopLeaves[2]) \o loopLeaves[3])
  /\ depthCount = 2

====
